---------------------------- MODULE Spec2Model ----------------------------
(***************************************************************************)
(* A model of sjtu-schedule-exporter-backend: the FastAPI handlers of      *)
(* __init__.py, the two Redis-backed stores of store.py (which share one   *)
(* Redis database, 127.0.0.1:6379 db 0), the per-address asyncio locks of  *)
(* mail_lock and the Mailgun client of mailgun.py.                         *)
(*                                                                         *)
(* Every request is a coroutine; one action of the model runs a coroutine  *)
(* from one suspension point (an await on Redis, the portal or Mailgun)    *)
(* to the next.  Collaborator calls end in one of the outcomes they can    *)
(* produce; time passes in the Tick action, which ages the Redis TTLs.     *)
(***************************************************************************)
EXTENDS Integers, Sequences, FiniteSets, TLC

(***************************************************************************)
(* Bounds of the model.                                                    *)
(***************************************************************************)
MaxReq == 2        \* session-bearing requests issued over a run
MaxLogins == 2     \* successful /login requests over a run
MaxSel == 3        \* longest period selector given to get_lesson_time
MaxItems == 2      \* longest list inside the input of flatten

(***************************************************************************)
(* Program constants.                                                      *)
(***************************************************************************)
SessionTTL == 1200     \* store.py:69   pipe.expire(key, 1200)
CooldownTTL == 60      \* store.py:46   limit(self, key, time = 60)
NoExpiry == -1         \* the TTL of a key that SET left without an expiry

\* the clock advances in steps of ten or twenty minutes
TickSteps == {600, 1200}

\* the suffix "@sjtu.edu.cn", kept as one symbol
Suffix == <<"@sjtu.edu.cn">>

Usernames == { <<"A">>, <<"a">> \o Suffix, <<"b">> }
Passwords == { "pw" }
Terms == {0, 3}

VARIABLES
    redis,           \* the Redis database both stores talk to: key -> [val, ttl]
    mail_lock,       \* defaultdict(asyncio.Lock): address -> [id, holder, waiters]
    lockSeq,         \* number of asyncio.Lock objects constructed so far
    req,             \* the session-bearing requests (coroutines)
    response,        \* the response the last step sent, if it ended a request
    issued,          \* number of session ids uuid4 has produced
    mailConfigured,  \* MAIL_DOMAIN and MAILGUN_API_KEY are both set
    sinceMail,       \* per address: seconds since Mailgun last accepted a mail (capped)
    lastGap,         \* per address: seconds between the last two accepted mails (capped)
    sinceWrite,      \* per key: seconds since its value was written (SessionTTL: none)
    loggedOut,       \* session keys for which a /logout request has completed
    call,            \* a call of a function of utils.py or calendar.py: [fn, arg]
    result           \* what the call returned or raised, once it has run

vars == <<redis, mail_lock, lockSeq, req, response, issued, mailConfigured,
          sinceMail, lastGap, sinceWrite, loggedOut, call, result>>

utilVars == <<call, result>>

serviceVars == <<redis, mail_lock, lockSeq, req, response, issued, mailConfigured,
                 sinceMail, lastGap, sinceWrite, loggedOut>>

Requests == 1..MaxReq

Min(a, b) == IF a < b THEN a ELSE b

(***************************************************************************)
(* Strings are sequences of characters.                                    *)
(***************************************************************************)
\* str.lower(), on the characters the model uses
Lower(c) ==
    CASE c = "A" -> "a"
      [] c = "B" -> "b"
      [] OTHER -> c

LowerStr(s) == [i \in DOMAIN s |-> Lower(s[i])]

\* str.endswith
EndsWith(s, suf) ==
    /\ Len(s) >= Len(suf)
    /\ SubSeq(s, Len(s) - Len(suf) + 1, Len(s)) = suf

\* the address without lower()
MailAddressNoLower(username) ==
    IF ~EndsWith(username, Suffix) THEN username \o Suffix ELSE username

\* __init__.py:133-135
MailAddress(username) ==
    LET mail_address == LowerStr(username)
    IN  IF ~EndsWith(mail_address, Suffix)
        THEN mail_address \o Suffix
        ELSE mail_address

MailAddrs == { MailAddress(u) : u \in Usernames }

\* uuid.uuid4().hex: the n-th identifier produced, distinct from all before it
Uuid(n) == [i \in 1..n |-> "k"]

SessionKeys == { Uuid(n) : n \in 1..MaxLogins }

Keys == SessionKeys \cup MailAddrs

(***************************************************************************)
(* Redis: GET, SET, EXPIRE, DEL and the passing of time.                   *)
(***************************************************************************)
Nil == [tag |-> "nil"]
Absent == [val |-> Nil, ttl |-> 0]

RedisGet(db, k) == db[k].val

\* SET stores the value and discards any expiry the key had
RedisSet(db, k, v) == [db EXCEPT ![k] = [val |-> v, ttl |-> NoExpiry]]

RedisExpire(db, k, t) ==
    IF db[k].val = Nil THEN db ELSE [db EXCEPT ![k].ttl = t]

RedisDelete(db, k) == [db EXCEPT ![k] = Absent]

\* d seconds pass: a key whose expiry is reached is gone
RedisAge(db, d) ==
    [k \in DOMAIN db |->
        IF db[k].val = Nil \/ db[k].ttl = NoExpiry THEN db[k]
        ELSE IF db[k].ttl <= d THEN Absent
        ELSE [db[k] EXCEPT !.ttl = db[k].ttl - d]]

(***************************************************************************)
(* store.py                                                                *)
(***************************************************************************)
\* pickle.dumps / pickle.loads; the marker "1" is not a pickle
PickleDumps(obj) == [tag |-> "pickle", obj |-> obj]
StrBytes(s) == [tag |-> "str", str |-> s]
Unpicklable(bytes) == bytes.tag # "pickle"
PickleLoads(bytes) == bytes.obj

\* an is_limit that never finds the marker
is_limitNever(db, key) == FALSE

\* RedisRateLimitStore.is_limit
is_limit(db, key) == RedisGet(db, key) # Nil

\* RedisRateLimitStore.limit: set and expire in one MULTI/EXEC pipeline
limit(db, key, time) == RedisExpire(RedisSet(db, key, StrBytes("1")), key, time)

\* a get without the test for None: pickle.loads(None) raises
GetOutcomeRaise(db, key) ==
    IF Unpicklable(RedisGet(db, key)) THEN "error" ELSE "user"

\* RedisSessionStore.get: "none", "error" (pickle.loads raises) or "user"
GetOutcome(db, key) ==
    IF RedisGet(db, key) = Nil THEN "none"
    ELSE IF Unpicklable(RedisGet(db, key)) THEN "error"
    ELSE "user"

get(db, key) == PickleLoads(RedisGet(db, key))

\* a put that leaves out pipe.expire
putNoExpire(db, value, key, fresh) ==
    RedisSet(db, IF key = <<>> THEN fresh ELSE key, PickleDumps(value))

\* RedisSessionStore.put: the key used (a falsy key is replaced by a fresh uuid)
NoKey == <<>>
PutKey(key, fresh) == IF key = NoKey THEN fresh ELSE key

put(db, value, key, fresh) ==
    RedisExpire(RedisSet(db, PutKey(key, fresh), PickleDumps(value)),
                PutKey(key, fresh), SessionTTL)

\* a delete that empties the database (FLUSHDB)
deleteFlush(db, key) == [k \in DOMAIN db |-> Absent]

\* RedisSessionStore.delete
delete(db, key) == RedisDelete(db, key)

User(username, state) == [username |-> username, state |-> state]


(***************************************************************************)
(* The portal session (pysjtu.AsyncSession): what dumps() returns.         *)
(***************************************************************************)
SessionDumps(username, password, cookies) ==
    [username |-> username, password |-> password, cookies |-> cookies]

\* a pop that removes nothing
PopNothing(d, key) == d

\* dict.pop(key)
Pop(d, key) == [f \in DOMAIN d \ {key} |-> d[f]]

\* loads(state) followed by dumps(), the cookies being what the portal left
Redump(state, cookies) == [state EXCEPT !.cookies = cookies]

NoUser == User(NoKey, [cookies |-> "none"])

(***************************************************************************)
(* mail_lock = defaultdict(asyncio.Lock)                                   *)
(***************************************************************************)
NewLock(id) == [id |-> id, holder |-> 0, waiters |-> <<>>]

\* a map that constructs a lock on every access
LockMapFresh(locks, key, seq) ==
    [k \in DOMAIN locks \cup {key} |->
        IF k = key THEN NewLock(seq + 1) ELSE locks[k]]

\* defaultdict.__getitem__: the lock of the key, constructed on first use
LockMap(locks, key, seq) ==
    IF key \in DOMAIN locks THEN locks ELSE locks @@ (key :> NewLock(seq + 1))

\* one lock for all addresses
LockKeyGlobal(mail_address) == <<>>

\* the key of mail_lock[mail_address]
LockKey(mail_address) == mail_address

\* asyncio.Lock.acquire: taken at once when free, else the caller queues (FIFO)
Acquire(lock, r) ==
    IF lock.holder = 0 /\ lock.waiters = <<>>
    THEN [lock EXCEPT !.holder = r]
    ELSE [lock EXCEPT !.waiters = Append(@, r)]

\* asyncio.Lock.release: the first waiter, if any, is woken and owns the lock
Release(lock) ==
    IF lock.waiters = <<>>
    THEN [lock EXCEPT !.holder = 0]
    ELSE [lock EXCEPT !.holder = Head(lock.waiters), !.waiters = Tail(lock.waiters)]

\* a waiter cancelled inside acquire() leaves the queue
RemoveWaiter(lock, r) ==
    [lock EXCEPT !.waiters = SelectSeq(@, LAMBDA w : w # r)]

(***************************************************************************)
(* Requests.  A request that has ended keeps nothing but its being done;   *)
(* response is what the step just taken answered, if it ended a request.   *)
(***************************************************************************)
\* "query" stands for /student_id, /schedule, /term_start and /schedule_ics
Kinds == {"query", "mail_ics", "logout", "silent_logout"}

Response(status, detail) == [status |-> status, detail |-> detail]

Idle ==
    [kind |-> "none", pc |-> "idle", token |-> NoKey, user |-> NoUser,
     addr |-> NoKey, sent |-> "none", lockId |-> 0, rival |-> FALSE]

Done == [Idle EXCEPT !.pc = "done"]

InSection(rq) == rq.pc \in {"is_limit", "fetch", "send", "mark"}

\* Mailgun.send: the outcomes of client.post on which send raises
SendRaises(outcome) == outcome = "transport_error"

\* the exception handlers of the app: SessionException is answered 403
Failure(outcome) ==
    IF outcome = "SessionException" THEN Response(403, "SessionException")
    ELSE Response(500, "Internal Server Error")

NoResponse == Response(0, "")
InvalidSession == Response(403, "Invalid session.")
NoMailing == Response(501, "This server doesn't have mailing capability.")
RateLimited ==
    Response(429, "You are not allowed to send more than 1 email per minute.")
MailSent == Response(200, "MailSentResponse")
Success == Response(200, "")

\* no call of a utility function is under way
NoCall == [fn |-> "none", arg |-> <<>>]
Pending == [exc |-> "pending", value |-> <<>>]

TypeOK ==
    /\ DOMAIN redis = Keys
    /\ DOMAIN mail_lock \subseteq MailAddrs
    /\ lockSeq \in 0..Cardinality(MailAddrs)
    /\ issued \in 0..MaxLogins
    /\ mailConfigured \in BOOLEAN
    /\ loggedOut \subseteq SessionKeys
    /\ \A r \in Requests : req[r].kind \in Kinds \cup {"none"}

Init ==
    /\ redis = [k \in Keys |-> Absent]
    /\ mail_lock = <<>>
    /\ lockSeq = 0
    /\ req = [r \in Requests |-> Idle]
    /\ response = NoResponse
    /\ issued = 0
    /\ mailConfigured \in BOOLEAN
    /\ sinceMail = [a \in MailAddrs |-> CooldownTTL]
    /\ lastGap = [a \in MailAddrs |-> CooldownTTL]
    /\ sinceWrite = [k \in Keys |-> SessionTTL]
    /\ loggedOut = {}
    /\ call = NoCall
    /\ result = Pending

Written(k) == [sinceWrite EXCEPT ![k] = 0]

(***************************************************************************)
(* POST /login   (__init__.py:70-81).  The coroutine touches shared state  *)
(* once, in store.put, so it is taken as one step at that moment.          *)
(***************************************************************************)
LoginUser(username, password) ==
    User(username, Pop(SessionDumps(username, password, "active"), "password"))

Login(u, p) ==
    /\ issued < MaxLogins
    /\ \E outcome \in {"ok", "LoginException", "store_error"} :
          IF outcome = "ok"
          THEN /\ redis' = put(redis, LoginUser(u, p), NoKey, Uuid(issued + 1))
               /\ sinceWrite' = Written(Uuid(issued + 1))
               /\ issued' = issued + 1
          ELSE UNCHANGED <<redis, sinceWrite, issued>>
    /\ response' = NoResponse
    /\ UNCHANGED <<mail_lock, lockSeq, req, mailConfigured, sinceMail, lastGap,
                   loggedOut>>
    /\ UNCHANGED utilVars

(***************************************************************************)
(* The session dependency and the first stretch of each handler.  A        *)
(* request touches nothing shared before store.get, so its arrival is      *)
(* taken at that moment.                                                   *)
(***************************************************************************)
\* sjtu_session when the handler has raised an exception that the app answers
\* (HTTPException: 429, 501; SessionException: 403 by the handler of
\* __init__.py:65-67).  What becomes of the generator depends on the release of
\* FastAPI, which the source does not fix: releases before 0.74 resume it
\* after the yield once the answer is out, so that store.put runs; later
\* releases raise the exception at the yield, so that it does not.  A request
\* that is to be resumed keeps what the generator holds, the key and the User
\* read; its session is as it was loaded.  An exception that no handler of
\* the app answers (500) and a cancellation reach the generator at the yield
\* in every release.
Raised(rq) ==
    [Idle EXCEPT !.pc = "exit", !.token = rq.token, !.user = rq.user]

\* sjtu_session after the yield: the User that auto-save writes
Saved(rq) ==
    User(rq.user.username,
         Redump(rq.user.state, IF rq.kind = "silent_logout" THEN "out"
                               ELSE rq.user.state.cookies))

\* sjtu_session when the handler has returned.  The order of the answer and
\* of the store.put after the yield depends on the release of FastAPI too:
\* releases before 0.106 send the answer and then resume the generator, so
\* that the client has its 200 whatever becomes of the put; later releases
\* resume the generator first and answer when the put is done, with 500 if
\* it raised.  Answered is the request whose answer is out and whose put is
\* to come: it keeps the key, the User to write and what Mailgun said.
\* Returned is the request that has yet to put and then to answer.
Answered(rq) ==
    [Raised([rq EXCEPT !.user = Saved(rq)]) EXCEPT !.sent = rq.sent]

Returned(rq) == [rq EXCEPT !.pc = "save", !.lockId = 0]

\* mail_ics up to its first suspension: the capability check, the address, and
\* "async with mail_lock[mail_address]"
EnterMail(r, tok, user) ==
    LET mail_address == MailAddress(user.username)
        key == LockKey(mail_address)
        locks == LockMap(mail_lock, key, lockSeq)
        lock == Acquire(locks[key], r)
        me == [Idle EXCEPT !.kind = "mail_ics", !.token = tok, !.user = user,
                           !.addr = mail_address]
    IN  IF ~mailConfigured
        THEN /\ \E late \in BOOLEAN :
                   req' = [req EXCEPT ![r] = IF late THEN Raised(me) ELSE Done]
             /\ response' = NoMailing
             /\ UNCHANGED <<mail_lock, lockSeq>>
        ELSE /\ mail_lock' = [locks EXCEPT ![key] = lock]
             /\ lockSeq' = IF key \in DOMAIN mail_lock THEN lockSeq ELSE lockSeq + 1
             /\ req' = [req EXCEPT ![r] =
                          IF lock.holder = r
                          THEN [me EXCEPT !.pc = "is_limit", !.lockId = lock.id]
                          ELSE [me EXCEPT !.pc = "waitlock"]]
             /\ response' = NoResponse

\* user := await store.get(session_field.session), then the handler begins
DepGet(r, kind, tok) ==
    /\ req[r].pc = "idle"
    /\ IF r = 1 THEN TRUE ELSE req[r - 1].pc # "idle"
    /\ \E ok \in BOOLEAN :
          IF ~ok \/ GetOutcome(redis, tok) = "error"
          THEN /\ req' = [req EXCEPT ![r] = Done]
               /\ response' = Failure("error")
               /\ UNCHANGED <<mail_lock, lockSeq>>
          ELSE IF GetOutcome(redis, tok) = "none"
          THEN /\ req' = [req EXCEPT ![r] = Done]
               /\ response' = InvalidSession
               /\ UNCHANGED <<mail_lock, lockSeq>>
          ELSE IF kind = "mail_ics"
          THEN EnterMail(r, tok, get(redis, tok))
          ELSE /\ req' = [req EXCEPT ![r] =
                            [Idle EXCEPT !.kind = kind, !.token = tok,
                                         !.user = get(redis, tok), !.pc = "portal"]]
               /\ response' = NoResponse
               /\ UNCHANGED <<mail_lock, lockSeq>>
    /\ UNCHANGED <<redis, issued, mailConfigured, sinceMail, lastGap, sinceWrite,
                   loggedOut>>
    /\ UNCHANGED utilVars

(***************************************************************************)
(* Leaving "async with mail_lock[mail_address]" on any path: the lock is   *)
(* released, and the waiter that release() wakes enters the section.       *)
(***************************************************************************)
Woken(rq, lock) ==
    [rq EXCEPT !.pc = "is_limit", !.lockId = lock.id]

\* a section left without release()
LeaveLockHeld(lock) == lock

\* async with: __aexit__ releases the lock however the body ended
LeaveLock(lock) == Release(lock)

\* the requests after r has left the section as record me
LeaveReqs(r, me) ==
    LET lock == LeaveLock(mail_lock[LockKey(req[r].addr)])
    IN  [q \in Requests |->
            IF q = r THEN me
            ELSE IF lock.holder = q /\ req[q].pc = "waitlock" THEN Woken(req[q], lock)
            ELSE req[q]]

LeaveLocks(r) ==
    [mail_lock EXCEPT ![LockKey(req[r].addr)] = LeaveLock(@)]

\* r is Permitted: the requests queued behind it for the same lock are its rivals
Permit(r) ==
    [q \in Requests |->
        IF q = r THEN [req[r] EXCEPT !.pc = "fetch"]
        ELSE IF req[q].pc = "waitlock" /\ req[q].addr = req[r].addr
        THEN [req[q] EXCEPT !.rival = TRUE]
        ELSE req[q]]

(***************************************************************************)
(* POST /mail_ics inside the lock   (__init__.py:137-156)                  *)
(***************************************************************************)
\* if await rate_limit_store.is_limit(mail_address): raise HTTPException(429)
IsLimit(r) ==
    /\ req[r].pc = "is_limit"
    /\ \E ok \in BOOLEAN :
          IF ~ok
          THEN /\ req' = LeaveReqs(r, Done)
               /\ mail_lock' = LeaveLocks(r)
               /\ response' = Failure("error")
          ELSE IF is_limit(redis, req[r].addr)
          THEN /\ \E late \in BOOLEAN :
                     req' = LeaveReqs(r, IF late THEN Raised(req[r]) ELSE Done)
               /\ mail_lock' = LeaveLocks(r)
               /\ response' = RateLimited
          ELSE /\ req' = Permit(r)
               /\ response' = NoResponse
               /\ UNCHANGED mail_lock
    /\ UNCHANGED <<redis, lockSeq, issued, mailConfigured, sinceMail, lastGap,
                   sinceWrite, loggedOut>>
    /\ UNCHANGED utilVars

\* client.term_start_date, client.schedule, schedule_to_ics, term_display[term]
Fetch(r) ==
    /\ req[r].pc = "fetch"
    /\ \E outcome \in {"ok", "SessionException", "error"}, term \in Terms :
          IF outcome = "ok" /\ term \in {0, 1, 2}
          THEN /\ req' = [req EXCEPT ![r].pc = "send"]
               /\ response' = NoResponse
               /\ UNCHANGED mail_lock
          ELSE /\ \E late \in BOOLEAN :
                     req' = LeaveReqs(r, IF late /\ outcome = "SessionException"
                                         THEN Raised(req[r]) ELSE Done)
               /\ mail_lock' = LeaveLocks(r)
               /\ response' = IF outcome = "ok" THEN Failure("KeyError")
                              ELSE Failure(outcome)
    /\ UNCHANGED <<redis, lockSeq, issued, mailConfigured, sinceMail, lastGap,
                   sinceWrite, loggedOut>>
    /\ UNCHANGED utilVars

\* await mailgun.send(mail_address, ...)
Send(r) ==
    /\ req[r].pc = "send"
    /\ \E outcome \in {"accepted", "rejected", "transport_error"} :
          /\ IF SendRaises(outcome)
             THEN /\ req' = LeaveReqs(r, Done)
                  /\ mail_lock' = LeaveLocks(r)
                  /\ response' = Failure("error")
             ELSE /\ req' = [req EXCEPT ![r] = [@ EXCEPT !.sent = outcome, !.pc = "mark"]]
                  /\ response' = NoResponse
                  /\ UNCHANGED mail_lock
          /\ IF outcome = "accepted"
             THEN /\ lastGap' = [lastGap EXCEPT ![req[r].addr] = sinceMail[req[r].addr]]
                  /\ sinceMail' = [sinceMail EXCEPT ![req[r].addr] = 0]
             ELSE UNCHANGED <<lastGap, sinceMail>>
    /\ UNCHANGED <<redis, lockSeq, issued, mailConfigured, sinceWrite, loggedOut>>
    /\ UNCHANGED utilVars

\* await rate_limit_store.limit(mail_address); return MailSentResponse(...)
Mark(r) ==
    /\ req[r].pc = "mark"
    /\ mail_lock' = LeaveLocks(r)
    /\ \E ok \in BOOLEAN :
          IF ok
          THEN /\ redis' = limit(redis, req[r].addr, CooldownTTL)
               /\ sinceWrite' = Written(req[r].addr)
               /\ \E early \in BOOLEAN :
                     IF early
                     THEN /\ req' = LeaveReqs(r, Answered(req[r]))
                          /\ response' = MailSent
                     ELSE /\ req' = LeaveReqs(r, Returned(req[r]))
                          /\ response' = NoResponse
          ELSE /\ req' = LeaveReqs(r, Done)
               /\ response' = Failure("error")
               /\ UNCHANGED <<redis, sinceWrite>>
    /\ UNCHANGED <<lockSeq, issued, mailConfigured, sinceMail, lastGap, loggedOut>>
    /\ UNCHANGED utilVars

\* sjtu_session after the yield, the handler having returned and its answer
\* waiting for the generator: await store.put(User(...), session_field.session),
\* then the answer of the handler, or 500 if the put raised
Save(r) ==
    /\ req[r].pc = "save"
    /\ req' = [req EXCEPT ![r] = Done]
    /\ \E ok \in BOOLEAN :
          IF ok
          THEN /\ redis' = put(redis, Saved(req[r]), req[r].token, Uuid(issued + 1))
               /\ sinceWrite' = Written(PutKey(req[r].token, Uuid(issued + 1)))
               /\ response' = IF req[r].kind = "mail_ics" THEN MailSent ELSE Success
          ELSE /\ response' = Failure("error")
               /\ UNCHANGED <<redis, sinceWrite>>
    /\ UNCHANGED <<mail_lock, lockSeq, issued, mailConfigured, sinceMail, lastGap,
                   loggedOut>>
    /\ UNCHANGED utilVars

\* sjtu_session resumed after the yield when the answer is out (the answer
\* of the handler, or that of its exception): the same store.put, with no
\* answer left to give, whether the put returns or raises
Resume(r) ==
    /\ req[r].pc = "exit"
    /\ req' = [req EXCEPT ![r] = Done]
    /\ response' = NoResponse
    /\ \E ok \in BOOLEAN :
          IF ok
          THEN /\ redis' = put(redis, Saved(req[r]), req[r].token, Uuid(issued + 1))
               /\ sinceWrite' = Written(PutKey(req[r].token, Uuid(issued + 1)))
          ELSE UNCHANGED <<redis, sinceWrite>>
    /\ UNCHANGED <<mail_lock, lockSeq, issued, mailConfigured, sinceMail, lastGap,
                   loggedOut>>
    /\ UNCHANGED utilVars

(***************************************************************************)
(* The other endpoints: calls on the portal, which touch nothing shared,   *)
(* then the store.                                                         *)
(***************************************************************************)
\* sjtu_session(auto_save): every endpoint but /logout uses the default, True
AutoSave(kind) == kind # "logout"

\* /student_id, /schedule, /term_start, /schedule_ics, /silent_logout: the
\* calls on the portal, up to the return of the handler or its exception;
\* /logout with its store.delete(session.key).  A handler that returned
\* is Answered or Returned; a SessionException of the portal is answered 403,
\* and the generator is then resumed or not (see Raised); any other failure
\* is answered 500 and the generator is not resumed
Portal(r) ==
    /\ req[r].pc = "portal"
    /\ IF req[r].kind = "logout"
       THEN /\ req' = [req EXCEPT ![r] = Done]
            /\ \E outcome \in {"ok", "SessionException", "error", "store_error"} :
                  IF outcome = "ok"
                  THEN /\ response' = Success
                       /\ redis' = delete(redis, req[r].token)
                       /\ loggedOut' = loggedOut \cup {req[r].token}
                       /\ sinceWrite' =
                             [sinceWrite EXCEPT ![req[r].token] = SessionTTL]
                  ELSE /\ response' = Failure(outcome)
                       /\ UNCHANGED <<redis, sinceWrite, loggedOut>>
       ELSE /\ \E outcome \in {"ok", "SessionException", "error"}, first \in BOOLEAN :
                  IF outcome = "ok"
                  THEN IF first
                       THEN /\ req' = [req EXCEPT ![r] = Answered(req[r])]
                            /\ response' = Success
                       ELSE /\ req' = [req EXCEPT ![r] = Returned(req[r])]
                            /\ response' = NoResponse
                  ELSE /\ req' = [req EXCEPT ![r] =
                                    IF first /\ outcome = "SessionException"
                                    THEN Raised(req[r]) ELSE Done]
                       /\ response' = Failure(outcome)
            /\ UNCHANGED <<redis, sinceWrite, loggedOut>>
    /\ UNCHANGED <<mail_lock, lockSeq, issued, mailConfigured, sinceMail, lastGap>>
    /\ UNCHANGED utilVars

(***************************************************************************)
(* Cancellation of a request at a suspension point, and time.              *)
(***************************************************************************)
Cancel(r) ==
    /\ req[r].pc \notin {"idle", "done"}
    /\ response' = NoResponse
    /\ IF InSection(req[r])
       THEN /\ req' = LeaveReqs(r, Done)
            /\ mail_lock' = LeaveLocks(r)
       ELSE IF req[r].pc = "waitlock"
       THEN /\ req' = [req EXCEPT ![r] = Done]
            /\ mail_lock' = [mail_lock EXCEPT ![LockKey(req[r].addr)] =
                                RemoveWaiter(@, r)]
       ELSE /\ req' = [req EXCEPT ![r] = Done]
            /\ UNCHANGED mail_lock
    /\ UNCHANGED <<redis, lockSeq, issued, mailConfigured, sinceMail, lastGap,
                   sinceWrite, loggedOut>>
    /\ UNCHANGED utilVars

Tick(d) ==
    /\ redis' = RedisAge(redis, d)
    /\ sinceMail' = [a \in MailAddrs |-> Min(sinceMail[a] + d, CooldownTTL)]
    /\ sinceWrite' = [k \in Keys |-> IF redis'[k].val = Nil THEN SessionTTL
                                      ELSE Min(sinceWrite[k] + d, SessionTTL)]
    /\ req' = [r \in Requests |-> [req[r] EXCEPT !.rival = FALSE]]
    /\ response' = NoResponse
    /\ UNCHANGED <<mail_lock, lockSeq, issued, mailConfigured, lastGap, loggedOut>>
    /\ UNCHANGED utilVars

Next ==
    \/ \E u \in Usernames, p \in Passwords : Login(u, p)
    \/ \E r \in Requests, kind \in Kinds, tok \in Keys : DepGet(r, kind, tok)
    \/ \E r \in Requests : IsLimit(r)
    \/ \E r \in Requests : Fetch(r)
    \/ \E r \in Requests : Send(r)
    \/ \E r \in Requests : Mark(r)
    \/ \E r \in Requests : Save(r)
    \/ \E r \in Requests : Resume(r)
    \/ \E r \in Requests : Portal(r)
    \/ \E r \in Requests : Cancel(r)
    \/ \E d \in TickSteps : Tick(d)

\* the whole service
Spec == Init /\ [][Next]_vars

(***************************************************************************)
(* The mailing endpoint alone: concurrent POST /mail_ics requests against  *)
(* a Redis that holds the sessions two earlier logins stored.              *)
(***************************************************************************)
Stored(u1, u2, p) ==
    put(put([k \in Keys |-> Absent], LoginUser(u1, p), NoKey, Uuid(1)),
        LoginUser(u2, p), NoKey, Uuid(2))

InitMail ==
    /\ \E u1 \in Usernames, u2 \in Usernames, p \in Passwords :
          redis = Stored(u1, u2, p)
    /\ mail_lock = <<>>
    /\ lockSeq = 0
    /\ req = [r \in Requests |-> Idle]
    /\ response = NoResponse
    /\ issued = 2
    /\ mailConfigured \in BOOLEAN
    /\ sinceMail = [a \in MailAddrs |-> CooldownTTL]
    /\ lastGap = [a \in MailAddrs |-> CooldownTTL]
    /\ sinceWrite = [k \in Keys |-> IF redis[k].val = Nil THEN SessionTTL ELSE 0]
    /\ loggedOut = {}
    /\ call = NoCall
    /\ result = Pending

NextMail ==
    \/ \E r \in Requests, tok \in Keys : DepGet(r, "mail_ics", tok)
    \/ \E r \in Requests : IsLimit(r)
    \/ \E r \in Requests : Fetch(r)
    \/ \E r \in Requests : Send(r)
    \/ \E r \in Requests : Mark(r)
    \/ \E r \in Requests : Save(r)
    \/ \E r \in Requests : Resume(r)
    \/ \E r \in Requests : Cancel(r)
    \/ \E d \in TickSteps : Tick(d)

SpecMail == InitMail /\ [][NextMail]_vars

\* mailing is configured; the second session is of another user, whose address
\* is or is not the address of the first
InitFair ==
    /\ InitMail
    /\ mailConfigured
    /\ get(redis, Uuid(1)).username = <<"A">>
    /\ get(redis, Uuid(2)).username # <<"A">>

\* every collaborator call inside the lock returns or raises in the end
FairMail ==
    /\ InitFair
    /\ [][NextMail]_vars
    /\ \A r \in Requests :
          WF_vars(IsLimit(r) \/ Fetch(r) \/ Send(r) \/ Mark(r))

(***************************************************************************)
(* The two stores with the requests served one at a time.                  *)
(***************************************************************************)
NextStore ==
    \/ \E u \in Usernames, p \in Passwords : Login(u, p)
    \/ \E kind \in Kinds, tok \in Keys : DepGet(1, kind, tok)
    \/ IsLimit(1)
    \/ Fetch(1)
    \/ Send(1)
    \/ Mark(1)
    \/ Save(1)
    \/ Resume(1)
    \/ Portal(1)
    \/ Cancel(1)
    \/ \E d \in TickSteps : Tick(d)

SpecStore == Init /\ [][NextStore]_vars

(***************************************************************************)
(* utils.py.  Python values carry their type; a call returns or raises.    *)
(***************************************************************************)
PyInt(n) == [type |-> "int", v |-> n]
PyList(items) == [type |-> "list", items |-> items]
PyNone == [type |-> "NoneType"]

Return(value) == [exc |-> "none", value |-> value]
Raise(exc) == [exc |-> exc, value |-> <<>>]

\* datetime.time(hour, minute)
time(hour, minute) == [hour |-> hour, minute |-> minute]

lesson_time ==
    << <<time(8, 0), time(8, 45)>>,
       <<time(8, 55), time(9, 40)>>,
       <<time(10, 0), time(10, 45)>>,
       <<time(10, 55), time(11, 40)>>,
       <<time(12, 0), time(12, 45)>>,
       <<time(12, 55), time(13, 40)>>,
       <<time(14, 0), time(14, 45)>>,
       <<time(14, 55), time(15, 40)>>,
       <<time(16, 0), time(16, 45)>>,
       <<time(16, 55), time(17, 40)>>,
       <<time(18, 0), time(18, 45)>>,
       <<time(18, 55), time(19, 40)>>,
       <<time(19, 55), time(20, 40)>>,
       <<time(20, 55), time(21, 40)>> >>

\* tuple.__getitem__: t[i] with i counted from 0, a negative i from the end
TupleGet(t, i) ==
    IF 0 <= i /\ i < Len(t) THEN Return(t[i + 1])
    ELSE IF 0 - Len(t) <= i /\ i < 0 THEN Return(t[Len(t) + i + 1])
    ELSE Raise("IndexError")

\* an indexing that takes the period itself for the position
get_lesson_timeNoOffset(time_) ==
    IF time_.type = "int" THEN TupleGet(lesson_time, time_.v)
    ELSE IF time_.items = <<>> THEN Raise("IndexError")
    ELSE LET first == TupleGet(lesson_time, time_.items[1].v)
             last == TupleGet(lesson_time, time_.items[Len(time_.items)].v)
         IN  IF first.exc # "none" THEN first
             ELSE IF last.exc # "none" THEN last
             ELSE Return(<<first.value[1], last.value[2]>>)

\* get_lesson_time(time): time[0] and time[-1] of a list are looked up, in
\* that order; anything but an int or a list falls through and returns None
get_lesson_time(time_) ==
    IF time_.type = "int" THEN TupleGet(lesson_time, time_.v - 1)
    ELSE IF time_.type = "list"
    THEN IF time_.items = <<>> THEN Raise("IndexError")
         ELSE LET first == TupleGet(lesson_time, time_.items[1].v - 1)
                  last == TupleGet(lesson_time,
                                   time_.items[Len(time_.items)].v - 1)
              IN  IF first.exc # "none" THEN first
                  ELSE IF last.exc # "none" THEN last
                  ELSE Return(<<first.value[1], last.value[2]>>)
    ELSE Return(PyNone)

\* isinstance(el, collections.abc.Iterable) and not isinstance(el, (str, bytes))
Recursible(el) ==
    /\ el.type \in {"list", "tuple", "str", "bytes"}
    /\ el.type \notin {"str", "bytes"}

\* a flatten that yields a nested list as it is
flattenShallow(obj) == obj.items

\* flatten(obj): the elements the generator yields, in the order it yields them
RECURSIVE flatten(_)
flatten(obj) ==
    LET yielded[i \in 0..Len(obj.items)] ==
            IF i = 0 THEN <<>>
            ELSE yielded[i - 1] \o
                 (IF Recursible(obj.items[i]) THEN flatten(obj.items[i])
                  ELSE <<obj.items[i]>>)
    IN  yielded[Len(obj.items)]

(***************************************************************************)
(* The calls of the utility functions the model makes.                     *)
(***************************************************************************)
\* the sequences over S of length n at most
SeqsUpTo(S, n) == UNION { [1..k -> S] : k \in 0..n }

Periods == 1..Len(lesson_time)

\* single periods: every index of the table and two beyond it on either side
PeriodInputs == (0 - Len(lesson_time) - 1)..(Len(lesson_time) + 2)

\* the periods that selectors are made of
SelIndices == {0 - Len(lesson_time), 0, 1, 3, 4, Len(lesson_time),
               Len(lesson_time) + 1}

TimeInputs ==
    { PyInt(p) : p \in PeriodInputs } \cup
    { PyList(sel) : sel \in SeqsUpTo({ PyInt(p) : p \in SelIndices }, MaxSel) }

FlattenLeaves == { PyInt(3), PyInt(1) }

Level0 == { PyList(s) : s \in SeqsUpTo(FlattenLeaves, MaxItems) }
Level1 == { PyList(s) : s \in SeqsUpTo(FlattenLeaves \cup Level0, MaxItems) }
Level2 ==
    { PyList(<<x>>) : x \in Level1 } \cup
    { PyList(<<l, x>>) : l \in FlattenLeaves, x \in Level1 }

FlattenInputs == Level1 \cup Level2

Call(fn, arg) == [fn |-> fn, arg |-> arg]

\* return lesson_time[...]
GetLessonTime ==
    /\ call.fn = "get_lesson_time"
    /\ result = Pending
    /\ result' = get_lesson_time(call.arg)
    /\ UNCHANGED <<call, serviceVars>>

\* list(flatten(obj))
Flatten ==
    /\ call.fn = "flatten"
    /\ result = Pending
    /\ result' = Return(PyList(flatten(call.arg)))
    /\ UNCHANGED <<call, serviceVars>>

(***************************************************************************)
(* calendar.py (schedule_to_ics), which is not among the sources: the      *)
(* converter as the specification describes it, over utils.py.             *)
(***************************************************************************)
\* datetime.date(year, month, day)
date(year, month, day) == [year |-> year, month |-> month, day |-> day]

IsLeap(year) == (year % 4 = 0 /\ year % 100 # 0) \/ year % 400 = 0

DaysInMonth(year, month) ==
    CASE month \in {4, 6, 9, 11} -> 30
      [] month = 2 -> IF IsLeap(year) THEN 29 ELSE 28
      [] OTHER -> 31

DaysBeforeYear(year) ==
    (year - 1) * 365 + (year - 1) \div 4 - (year - 1) \div 100
        + (year - 1) \div 400

RECURSIVE DaysBeforeMonth(_, _)
DaysBeforeMonth(year, month) ==
    IF month = 1 THEN 0
    ELSE DaysBeforeMonth(year, month - 1) + DaysInMonth(year, month - 1)

\* date.toordinal and date.isoweekday (Monday is 1)
toordinal(d) == DaysBeforeYear(d.year) + DaysBeforeMonth(d.year, d.month) + d.day
isoweekday(d) == ((toordinal(d) + 6) % 7) + 1

Tomorrow(d) ==
    IF d.day < DaysInMonth(d.year, d.month) THEN date(d.year, d.month, d.day + 1)
    ELSE IF d.month < 12 THEN date(d.year, d.month + 1, 1)
    ELSE date(d.year + 1, 1, 1)

\* d + datetime.timedelta(days = n), n >= 0
RECURSIVE AddDays(_, _)
AddDays(d, n) == IF n = 0 THEN d ELSE AddDays(Tomorrow(d), n - 1)

\* a class of the schedule: the fields of ScheduleCourse the converter reads
ClassEntry(name, day, week, time_) ==
    [name |-> name, day |-> day, week |-> week, time |-> time_]

\* an anchor that is the term start whatever the day of the week
AnchorDateTermStart(term_start, day) == term_start

\* the first date on or after term_start that falls on the day of the week
AnchorDate(term_start, day) ==
    AddDays(term_start, (day - isoweekday(term_start)) % 7)

\* the numbers of a set in ascending order
RECURSIVE AscendingSeq(_)
AscendingSeq(S) ==
    IF S = {} THEN <<>>
    ELSE LET least == CHOOSE x \in S : \A y \in S : x <= y
         IN  <<least>> \o AscendingSeq(S \ {least})

\* ClassEntry.weeks: the week numbers of the nested structure, flattened, each
\* once, ascending
Weeks(week) ==
    LET flat == flatten(week)
    IN  AscendingSeq({ flat[i].v : i \in DOMAIN flat })

\* the events of one class: one for each occurrence date, that is, for each
\* week number of its week set
EventsOf(entry, term_start, times) ==
    LET weeks == Weeks(entry.week)
    IN  [i \in 1..Len(weeks) |->
            [summary |-> entry.name,
             date |-> AddDays(AnchorDate(term_start, entry.day),
                              (weeks[i] - 1) * 7),
             start |-> times[1],
             end |-> times[2]]]

RECURSIVE Convert(_, _, _)
Convert(schedule, term_start, i) ==
    IF i > Len(schedule) THEN Return(<<>>)
    ELSE LET times == get_lesson_time(schedule[i].time)
             rest == Convert(schedule, term_start, i + 1)
         IN  IF times.exc # "none" THEN times
             ELSE IF Weeks(schedule[i].week) = <<>>
             THEN Raise("InvalidScheduleError")
             ELSE IF rest.exc # "none" THEN rest
             ELSE Return(EventsOf(schedule[i], term_start, times.value)
                         \o rest.value)

schedule_to_ics(schedule, term_start_date) == Convert(schedule, term_start_date, 1)

\* the nested week structures the portal hands over: flat and nested, in and
\* out of order, with a week number repeated inside a list and across nested
\* groups, and the empty one
WeekInputs ==
    { PyList(<<PyInt(1), PyInt(3), PyInt(5)>>),
      PyList(<<PyInt(1)>>),
      PyList(<<PyInt(5), PyInt(2)>>),
      PyList(<<PyList(<<PyInt(1), PyInt(3)>>), PyInt(5)>>),
      PyList(<<PyInt(2), PyList(<<PyInt(4), PyList(<<PyInt(6)>>)>>)>>),
      PyList(<<PyInt(1), PyInt(1), PyInt(3)>>),
      PyList(<<PyList(<<PyInt(1), PyInt(3)>>), PyList(<<PyInt(3), PyInt(2)>>)>>),
      PyList(<<>>) }

\* a week beginning on a Monday, and the last days of a year
TermStarts ==
    { date(2024, 2, d) : d \in 19..25 } \cup { date(2024, 12, 30) }

Entries ==
    { ClassEntry("c", day, week, PyList(<<PyInt(3), PyInt(4)>>)) :
         day \in 1..7, week \in WeekInputs }

SecondEntries ==
    { ClassEntry("d", day, week, PyInt(1)) :
         day \in {2, 7},
         week \in { PyList(<<PyInt(1), PyInt(3)>>),
                    PyList(<<PyList(<<PyInt(2)>>)>>) } }

CalendarInputs ==
    { [schedule |-> sch, term_start_date |-> ts] :
         sch \in { <<e>> : e \in Entries } \cup
                 { <<e, f>> : e \in Entries, f \in SecondEntries },
         ts \in TermStarts }

Calls ==
    { Call("get_lesson_time", t) : t \in TimeInputs } \cup
    { Call("flatten", x) : x \in FlattenInputs } \cup
    { Call("schedule_to_ics", c) : c \in CalendarInputs }

\* Response(schedule_to_ics(schedule, term_start_date), ...)
ScheduleToIcs ==
    /\ call.fn = "schedule_to_ics"
    /\ result = Pending
    /\ result' = schedule_to_ics(call.arg.schedule, call.arg.term_start_date)
    /\ UNCHANGED <<call, serviceVars>>

InitUtils ==
    /\ redis = [k \in Keys |-> Absent]
    /\ mail_lock = <<>>
    /\ lockSeq = 0
    /\ req = [r \in Requests |-> Idle]
    /\ response = NoResponse
    /\ issued = 0
    /\ mailConfigured = FALSE
    /\ sinceMail = [a \in MailAddrs |-> CooldownTTL]
    /\ lastGap = [a \in MailAddrs |-> CooldownTTL]
    /\ sinceWrite = [k \in Keys |-> SessionTTL]
    /\ loggedOut = {}
    /\ call \in Calls
    /\ result = Pending

NextUtils ==
    \/ GetLessonTime
    \/ Flatten
    \/ ScheduleToIcs

\* the functions of utils.py and the converter, each applied to its inputs
SpecUtils == InitUtils /\ [][NextUtils]_vars

(***************************************************************************)
(* Properties.                                                             *)
(***************************************************************************)
Permitted(rq) == rq.pc \in {"fetch", "send", "mark", "save"}

\* C1: of the mail_ics requests for one identity that run concurrently, only
\* one passes the rate-limit check: a request that queued for the lock while
\* another request for its identity was Permitted is not itself Permitted
\* (no time having passed since), whatever the collaborator calls answered
C1_OnePermitted ==
    \A r \in Requests : req[r].rival => ~Permitted(req[r])

\* C2: two mails Mailgun accepted for one address are at least CooldownTTL
\* seconds apart
C2_CooldownBetweenMails ==
    \A a \in MailAddrs : lastGap[a] >= CooldownTTL

\* C3: at most one request is inside the locked section for a mail address,
\* the request inside holds the lock mail_lock has for the address and
\* entered through that very lock object, and mail_lock has constructed
\* exactly one lock per address it holds (none replaced, none removed)
C3_PerKeyMutualExclusion ==
    /\ \A r \in Requests, q \in Requests :
          (InSection(req[r]) /\ InSection(req[q]) /\ req[r].addr = req[q].addr)
             => r = q
    /\ \A r \in Requests :
          InSection(req[r]) =>
             /\ LockKey(req[r].addr) \in DOMAIN mail_lock
             /\ mail_lock[LockKey(req[r].addr)].holder = r
             /\ mail_lock[LockKey(req[r].addr)].id = req[r].lockId
    /\ lockSeq = Cardinality(DOMAIN mail_lock)
    /\ \A a \in DOMAIN mail_lock, b \in DOMAIN mail_lock :
          mail_lock[a].id = mail_lock[b].id => a = b

\* a request inside the section while another waits for the same address
C3_Witness ==
    \E r \in Requests, q \in Requests :
       /\ InSection(req[r])
       /\ req[q].pc = "waitlock"
       /\ req[q].addr = req[r].addr

\* C4: a request waits for a lock only while another request is inside the
\* section for the same address; requests for other addresses never block it
C4_KeysIndependent ==
    \A q \in Requests :
       req[q].pc = "waitlock" =>
          \E r \in Requests \ {q} :
             InSection(req[r]) /\ req[r].addr = req[q].addr

\* two requests for different addresses inside their sections at once
C4_Witness ==
    \E r \in Requests, q \in Requests :
       /\ InSection(req[r])
       /\ InSection(req[q])
       /\ req[r].addr # req[q].addr

\* the lock is free whenever no request is inside its section, and its
\* waiters are exactly the requests queued for it
C5_Released ==
    /\ \A a \in DOMAIN mail_lock :
          /\ mail_lock[a].holder # 0 =>
                /\ InSection(req[mail_lock[a].holder])
                /\ LockKey(req[mail_lock[a].holder].addr) = a
          /\ mail_lock[a].holder = 0 => mail_lock[a].waiters = <<>>
          /\ \A i \in DOMAIN mail_lock[a].waiters :
                /\ req[mail_lock[a].waiters[i]].pc = "waitlock"
                /\ LockKey(req[mail_lock[a].waiters[i]].addr) = a
    /\ \A r \in Requests :
          req[r].pc = "waitlock" =>
             \E i \in DOMAIN mail_lock[LockKey(req[r].addr)].waiters :
                mail_lock[LockKey(req[r].addr)].waiters[i] = r

\* C5: the lock is released on every path out of the section (return, 429,
\* failure, cancellation), and a request waiting for a lock stops waiting:
\* it acquires the lock, unless it is cancelled first
C5_LockReleased ==
    /\ []C5_Released
    /\ \A r \in Requests :
          (req[r].pc = "waitlock") ~> (req[r].pc # "waitlock")

\* a request that waited behind a Permitted request is inside the section
C5_Witness ==
    \E q \in Requests : req[q].pc = "is_limit" /\ req[q].rival

TTLOf(v) == IF v.tag = "pickle" THEN SessionTTL ELSE CooldownTTL

\* every key Redis holds has an expiry, and its age and its remaining TTL
\* add up to the TTL of its store: it is gone once the TTL has elapsed
C6_Expiring ==
    \A k \in Keys :
       redis[k].val # Nil =>
          /\ redis[k].ttl # NoExpiry
          /\ redis[k].ttl > 0
          /\ sinceWrite[k] + redis[k].ttl = TTLOf(redis[k].val)

\* a step that writes a session (login or auto-save) leaves a record that
\* get returns as a User; a step that writes a marker leaves is_limit true
C6_ReadBack ==
    /\ issued' # issued =>
          /\ GetOutcome(redis', Uuid(issued')) = "user"
          /\ \E u \in Usernames, p \in Passwords :
                get(redis', Uuid(issued')) = LoginUser(u, p)
    /\ \A r \in Requests :
          /\ (req[r].pc \in {"portal", "save"} /\ AutoSave(req[r].kind)
                /\ req'[r].pc = "done" /\ response' \in {Success, MailSent}) =>
                /\ GetOutcome(redis', req[r].token) = "user"
                /\ get(redis', req[r].token) = Saved(req[r])
          /\ (req[r].pc = "exit" /\ req'[r].pc = "done"
                /\ (redis' # redis \/ sinceWrite' # sinceWrite)) =>
                /\ GetOutcome(redis', req[r].token) = "user"
                /\ get(redis', req[r].token) = req[r].user
          /\ (req[r].pc = "mark" /\ req'[r].pc \in {"save", "exit"}) =>
                is_limit(redis', req[r].addr)

\* C6: a value written is returned by the read that follows at once, a key
\* is absent once its TTL (1200 s for sessions, 60 s for markers) has
\* elapsed without a write, and no key exists without an expiry
C6_TTLExpiry == []C6_Expiring /\ [][C6_ReadBack]_vars

\* two sessions stored at different times: the older one has expired, the
\* younger one has half of its TTL left
C6_Witness ==
    /\ issued = 2
    /\ loggedOut = {}
    /\ redis[Uuid(1)].val = Nil
    /\ redis[Uuid(2)].val # Nil
    /\ redis[Uuid(2)].ttl < SessionTTL

\* a request that was given a session by the dependency with auto-save ends
\* in a way that is the same under every release of FastAPI: its handler
\* raises an error that no handler of the app answers (500), or its answer
\* is given after the generator has run
Used(r) ==
    /\ AutoSave(req[r].kind)
    /\ req'[r].pc = "done"
    /\ \/ /\ req[r].pc \in {"portal", "is_limit", "fetch", "send", "mark"}
          /\ response'.status = Failure("error").status
       \/ /\ req[r].pc = "save"
          /\ response'.status = Success.status

\* the record of the session is in the store, just written, with the full TTL
Rewritten(r) ==
    /\ GetOutcome(redis', req[r].token) = "user"
    /\ redis'[req[r].token].ttl = SessionTTL
    /\ sinceWrite'[req[r].token] = 0

\* C7: every use of a session through the dependency with auto-save leaves
\* the record rewritten under its key with the full TTL of 1200 s, so that a
\* session used within every 20 minutes does not expire
C7_EveryUseRewrites ==
    [][\A r \in Requests : Used(r) => Rewritten(r)]_vars

\* C8: once a /logout for a session key has completed, the store holds no
\* record under the key (a request presenting it is answered 403)
C8_LoggedOutIsGone ==
    \A k \in loggedOut : GetOutcome(redis, k) = "none"

\* C9: a mail_ics handler returns MailSentResponse, its cooldown marker
\* written, only when Mailgun accepted the message (the handler has returned
\* in a mail_ics request that is to save, and in a request past its answer
\* that holds what Mailgun said)
C9_FailuresPropagated ==
    \A r \in Requests :
       ((req[r].pc = "save" /\ req[r].kind = "mail_ics")
          \/ (req[r].pc = "exit" /\ req[r].sent # "none"))
          => req[r].sent = "accepted"

\* C10: a request that finds the marker at its check never goes on to the
\* fetch; the 429 answer is given only on that path, with no write to Redis
\* and no mail, and if the dependency is resumed after it, that writes the
\* session record and nothing else (no marker, no mail); a failure of the
\* fetch, the dispatch or the marking is answered with another status
C10_Limited ==
    /\ \A r \in Requests :
          (req[r].pc = "is_limit" /\ redis[req[r].addr].val # Nil) =>
             req'[r].pc \in {"is_limit", "done", "exit"}
    /\ response' = RateLimited =>
          /\ redis' = redis
          /\ sinceMail' = sinceMail
          /\ lastGap' = lastGap
          /\ \E r \in Requests :
                /\ req[r].pc = "is_limit"
                /\ redis[req[r].addr].val # Nil
                /\ req'[r].pc \in {"done", "exit"}
    /\ \A r \in Requests :
          (req[r].pc = "exit" /\ req'[r].pc = "done") =>
             /\ \A k \in Keys \ {req[r].token} : redis'[k] = redis[k]
             /\ sinceMail' = sinceMail
             /\ lastGap' = lastGap
    /\ \A r \in Requests :
          (req[r].pc \in {"fetch", "send", "mark", "save"} /\ req'[r].pc = "done")
             => response'.status # RateLimited.status
    /\ \A outcome \in {"SessionException", "error", "KeyError"} :
          Failure(outcome).status # RateLimited.status

C10_LimitedNoAction == [][C10_Limited]_vars

\* a request has just been answered 429
C10_Witness == response = RateLimited

\* a key that holds nothing is read as None, not as an error
C11_AbsentIsNone ==
    \A k \in Keys : RedisGet(redis, k) = Nil => GetOutcome(redis, k) = "none"

\* a request goes on to its handler only with a token whose record is in the
\* store; the answer 403 'Invalid session.' is given by a request that did
\* nothing else, and leaves Redis as it was; with nothing in the store every
\* request is answered so (unless Redis cannot be reached)
C11_Rejected ==
    /\ \A r \in Requests :
          (req[r].pc = "idle" /\ req'[r].pc \notin {"idle", "done"})
             => RedisGet(redis, req'[r].token) # Nil
    /\ response' = InvalidSession =>
          /\ redis' = redis
          /\ sinceWrite' = sinceWrite
          /\ \E k \in Keys : RedisGet(redis, k) = Nil
          /\ \E r \in Requests : req[r].pc = "idle" /\ req'[r] = Done
    /\ ((\A k \in Keys : RedisGet(redis, k) = Nil)
          /\ \E r \in Requests : req[r].pc = "idle" /\ req'[r].pc # "idle")
          => response' \in {InvalidSession, Failure("error")}

\* C11: get of a key never written, deleted or expired returns None without
\* raising; a request presenting such a token is answered 403 'Invalid
\* session.' before any portal call and leaves the stores unchanged
C11_AbsentSession == []C11_AbsentIsNone /\ [][C11_Rejected]_vars

\* a session was stored, is gone, and a request has just been answered 403
C11_Witness ==
    /\ response = InvalidSession
    /\ issued >= 1
    /\ \A k \in SessionKeys : RedisGet(redis, k) = Nil

\* delete on the database as it is
C15_DeleteLaws ==
    \A k \in Keys :
       /\ RedisGet(redis, k) = Nil => delete(redis, k) = redis
       /\ delete(delete(redis, k), k) = delete(redis, k)
       /\ RedisGet(delete(redis, k), k) = Nil
       /\ \A j \in Keys \ {k} : delete(redis, k)[j] = redis[j]

\* the step of /logout that deletes the session leaves every other key alone
C15_LogoutStep ==
    \A k \in SessionKeys :
       (k \in loggedOut' /\ k \notin loggedOut) =>
          /\ RedisGet(redis', k) = Nil
          /\ \A j \in Keys \ {k} : redis'[j] = redis[j]

\* C15: delete of an absent key changes nothing, a second delete of the key
\* changes nothing more, and delete removes that key only
C15_DeleteIdempotent == []C15_DeleteLaws /\ [][C15_LogoutStep]_vars

\* a session has been logged out while another session is in the store
C15_Witness ==
    /\ loggedOut # {}
    /\ \E k \in SessionKeys \ loggedOut : RedisGet(redis, k) # Nil

\* C17: the cooldown marker of an address is in the store while a Permitted
\* request for it fetches or dispatches, and for CooldownTTL seconds after
\* a mail to it was accepted
C17_MarkBeforeAct ==
    /\ \A r \in Requests :
          req[r].pc \in {"fetch", "send", "mark"} => is_limit(redis, req[r].addr)
    /\ \A a \in MailAddrs :
          sinceMail[a] < CooldownTTL => is_limit(redis, a)

\* C18: whatever token a client presents, the session store's get finds
\* nothing or a record that put wrote, never a marker that limit wrote; and
\* no marker key holds a session record
C18_DisjointKeySpaces ==
    /\ \A tok \in Keys : GetOutcome(redis, tok) \in {"none", "user"}
    /\ \A a \in MailAddrs : is_limit(redis, a) => Unpicklable(RedisGet(redis, a))

\* C19: no session record in the store holds the password given to /login
C19_NoPasswordStored ==
    \A k \in Keys :
       GetOutcome(redis, k) = "user" =>
          \/ "password" \notin DOMAIN get(redis, k).state
          \/ get(redis, k).state.password \notin Passwords

\* a record that an auto-save wrote (after /silent_logout) is in the store
C19_Witness ==
    \E k \in SessionKeys :
       /\ GetOutcome(redis, k) = "user"
       /\ get(redis, k).state.cookies = "out"

\* the username without the suffix, if it has it
Local(s) ==
    IF EndsWith(s, Suffix) THEN SubSeq(s, 1, Len(s) - Len(Suffix)) ELSE s

\* the address of a request is its username in lower case with the suffix
\* once; the lock it holds is the lock of that address; two requests whose
\* usernames differ in case or suffix only have one address
C20_OneAddress ==
    /\ \A r \in Requests :
          req[r].kind = "mail_ics" /\ req[r].pc # "done" =>
             /\ EndsWith(req[r].addr, Suffix)
             /\ Local(req[r].addr) = LowerStr(Local(req[r].user.username))
             /\ MailAddress(req[r].addr) = req[r].addr
             /\ req[r].addr \in DOMAIN mail_lock
             /\ InSection(req[r]) => mail_lock[req[r].addr].holder = r
    /\ \A r \in Requests, q \in Requests :
          (/\ req[r].kind = "mail_ics" /\ req[r].pc # "done"
           /\ req[q].kind = "mail_ics" /\ req[q].pc # "done"
           /\ LowerStr(Local(req[r].user.username))
                 = LowerStr(Local(req[q].user.username)))
             => req[r].addr = req[q].addr
    /\ \A k \in Keys :
          (RedisGet(redis, k) # Nil /\ Unpicklable(RedisGet(redis, k))) =>
             /\ EndsWith(k, Suffix)
             /\ Local(k) = LowerStr(Local(k))

\* the mail goes to, and the marker is written for, the address of the lock
C20_SameKey ==
    \A r \in Requests :
       /\ (req[r].pc = "send" /\ req'[r].pc = "mark" /\ req'[r].sent = "accepted") =>
             /\ mail_lock[req[r].addr].holder = r
             /\ sinceMail'[req[r].addr] = 0
             /\ \A a \in MailAddrs \ {req[r].addr} : sinceMail'[a] = sinceMail[a]
       /\ (req[r].pc = "mark" /\ req'[r].pc \in {"save", "exit"}) =>
             /\ mail_lock[req[r].addr].holder = r
             /\ RedisGet(redis', req[r].addr) = StrBytes("1")
             /\ \A k \in Keys \ {req[r].addr} : redis'[k] = redis[k]

\* C20: the lock key, the marker key and the recipient are one normalized
\* address (the username in lower case, '@sjtu.edu.cn' appended unless it is
\* a suffix already), normalizing an address leaves it as it is, and sessions
\* whose usernames differ in case or suffix only share lock and marker
C20_OneIdentity == []C20_OneAddress /\ [][C20_SameKey]_vars

\* two sessions with different usernames queue on one lock
C20_Witness ==
    \E r \in Requests, q \in Requests :
       /\ InSection(req[r])
       /\ req[q].pc = "waitlock"
       /\ req[q].user.username # req[r].user.username
       /\ req[q].addr = req[r].addr

\* the periods of a selector
SelPeriods(time_) ==
    IF time_.type = "int" THEN {time_.v}
    ELSE { time_.items[i].v : i \in DOMAIN time_.items }

Ran(fn) == call.fn = fn /\ result # Pending

\* C12: get_lesson_time raises whenever a period of its selector is outside
\* 1..14, and returns no time range then
C12_OutOfRangeFails ==
    (Ran("get_lesson_time") /\ SelPeriods(call.arg) \ Periods # {})
       => result.exc # "none"

Before(a, b) == a.hour < b.hour \/ (a.hour = b.hour /\ a.minute < b.minute)

Ascending(sel) ==
    \A i \in DOMAIN sel, j \in DOMAIN sel : i < j => sel[i].v < sel[j].v

\* C13: for a selector within 1..14, get_lesson_time returns the entry of
\* the table for a single period, and for a non-empty sequence the start of
\* the entry of its first period with the end of the entry of its last; the
\* start is before the end when the sequence ascends; [3, 4] gives
\* (10:00, 11:40)
C13_PeriodEnvelope ==
    (Ran("get_lesson_time") /\ SelPeriods(call.arg) \subseteq Periods) =>
       /\ call.arg.type = "int" =>
             result = Return(lesson_time[call.arg.v])
       /\ (call.arg.type = "list" /\ call.arg.items # <<>>) =>
             /\ result.exc = "none"
             /\ result.value[1] = lesson_time[call.arg.items[1].v][1]
             /\ result.value[2] =
                   lesson_time[call.arg.items[Len(call.arg.items)].v][2]
             /\ Ascending(call.arg.items) =>
                   Before(result.value[1], result.value[2])
       /\ call.arg = PyList(<<PyInt(3), PyInt(4)>>) =>
             result = Return(<<time(10, 0), time(11, 40)>>)

\* get_lesson_time([3, 4]) has returned
C13_Witness ==
    /\ Ran("get_lesson_time")
    /\ call.arg = PyList(<<PyInt(3), PyInt(4)>>)
    /\ result.exc = "none"

\* the leaves of a nested value from left to right
RECURSIVE LeavesOf(_)
LeavesOf(x) ==
    IF x.type = "int" THEN <<x>>
    ELSE IF x.items = <<>> THEN <<>>
    ELSE LeavesOf(Head(x.items)) \o LeavesOf(PyList(Tail(x.items)))

RECURSIVE CountLeaves(_)
CountLeaves(x) ==
    IF x.type = "int" THEN 1
    ELSE IF x.items = <<>> THEN 0
    ELSE CountLeaves(Head(x.items)) + CountLeaves(PyList(Tail(x.items)))

\* C14: flatten yields the leaf integers of its input from left to right,
\* depth first, as many as the input has leaves (nothing sorted, nothing
\* dropped), and flattening its output gives the output again
C14_FlattenOrderIdempotent ==
    Ran("flatten") =>
       /\ result.exc = "none"
       /\ result.value.items = LeavesOf(call.arg)
       /\ Len(result.value.items) = CountLeaves(call.arg)
       /\ PyList(flatten(result.value)) = result.value

\* flatten has run on a list nested two deep, out of order and with a repeat
C14_Witness ==
    /\ Ran("flatten")
    /\ call.arg = PyList(<<PyInt(3), PyList(<<PyList(<<PyInt(1), PyInt(3)>>),
                                               PyInt(1)>>)>>)

RECURSIVE WeekSet(_)
WeekSet(x) ==
    IF x.type = "int" THEN {x.v}
    ELSE UNION { WeekSet(x.items[i]) : i \in DOMAIN x.items }

\* the dates of the events the converter emitted for the class of that name
DatesOf(events, name) ==
    LET own == SelectSeq(events, LAMBDA ev : ev.summary = name)
    IN  [i \in DOMAIN own |-> own[i].date]

\* C16: for each class the converter emits one event for each week number w
\* of its week set (a number the nested structure repeats counts once), on
\* anchor + (w - 1) * 7 days, where anchor is the first date on or after
\* term_start on the class's day of the week, and nothing else; weeks
\* [1, 3, 5] on day 2 from 2024-02-19 give 2024-02-20, 2024-03-05 and
\* 2024-03-19
C16_CalendarOccurrences ==
    (Ran("schedule_to_ics") /\ result.exc = "none") =>
       /\ \A i \in DOMAIN call.arg.schedule :
             LET entry == call.arg.schedule[i]
                 dates == DatesOf(result.value, entry.name)
                 anchor == CHOOSE a \in { AddDays(call.arg.term_start_date, k) :
                                             k \in 0..6 } :
                              isoweekday(a) = entry.day
             IN  /\ Len(dates) = Cardinality(WeekSet(entry.week))
                 /\ { dates[j] : j \in DOMAIN dates } =
                       { AddDays(anchor, (w - 1) * 7) : w \in WeekSet(entry.week) }
       /\ \A j \in DOMAIN result.value :
             \E i \in DOMAIN call.arg.schedule :
                result.value[j].summary = call.arg.schedule[i].name
       /\ (/\ Len(call.arg.schedule) = 1
           /\ call.arg.schedule[1].week = PyList(<<PyInt(1), PyInt(3), PyInt(5)>>)
           /\ call.arg.schedule[1].day = 2
           /\ call.arg.term_start_date = date(2024, 2, 19)) =>
             DatesOf(result.value, "c") =
                <<date(2024, 2, 20), date(2024, 3, 5), date(2024, 3, 19)>>

\* the converter has run on a class whose nested weeks repeat a week number
\* across groups, from a term start that is not on the class's day of the week
C16_Witness ==
    /\ Ran("schedule_to_ics")
    /\ result.exc = "none"
    /\ Len(call.arg.schedule) = 1
    /\ call.arg.schedule[1].week =
          PyList(<<PyList(<<PyInt(1), PyInt(3)>>), PyList(<<PyInt(3), PyInt(2)>>)>>)
    /\ call.arg.schedule[1].day = 2
    /\ call.arg.term_start_date = date(2024, 2, 21)
    /\ Len(result.value) = 3

=============================================================================
